---------------------------- MODULE Spec2Model ----------------------------
(***************************************************************************)
(* Model of the Amlogic bad-block-table core                               *)
(* (system/dev/nand/nandpart/aml-bad-block.cpp).                           *)
(*                                                                         *)
(* The state is the AmlBadBlock object (table_, block_list_, block_entry_, *)
(* page_, generation_, found_) together with the NAND flash it persists    *)
(* the table to.  Each public entry point is one action; the private       *)
(* helpers (FindBadBlockTable, WriteBadBlockTable, GetNewBlock, ReadPage,  *)
(* WritePage, EraseBlock) are operators on a machine record that is        *)
(* threaded through them.  NAND faults are an input of every call: a set   *)
(* of fault events F that says which erases, page writes and page reads    *)
(* of the call fail.                                                       *)
(***************************************************************************)
EXTENDS Integers, Sequences, FiniteSets, TLC

VARIABLES
    table_,        \* data buffer holding the block status table T
    block_list_,   \* the reserved-block entries
    block_entry_,  \* index of the current host entry in block_list_, or NULL
    page_,         \* next free page offset inside the host
    generation_,   \* G
    found_,        \* discovery has succeeded
    flash,         \* the NAND array: flash[block][page]
    ret,           \* what the last API call returned
    hist,          \* history of the object since it found its table
    faults,        \* number of fault events injected so far
    readfaults,    \* how many of them hit a read
    cycles,        \* number of power cycles so far
    config_,       \* the configured reserved range
    lock_,         \* the thread that holds the object's lock, or NULL
    pc,            \* where each calling thread is
    inflight,      \* NAND operations queued and not yet completed
    bad_block_list_,     \* the bad-block list a partition device has cached
    erase_block_start_,  \* the first block of that partition
    nand_ops       \* the NAND operations clients hand to that partition

\* The variables of the core and its flash, and those of its surroundings:
\* the configuration, the calling threads and a partition device.
core == <<table_, block_list_, block_entry_, page_, generation_, found_,
          flash, ret, hist, faults, readfaults, cycles>>
surroundings == <<config_, lock_, pc, inflight, bad_block_list_, erase_block_start_, nand_ops>>
vars == <<table_, block_list_, block_entry_, page_, generation_, found_,
          flash, ret, hist, faults, readfaults, cycles,
          config_, lock_, pc, inflight, bad_block_list_, erase_block_start_, nand_ops>>

----------------------------------------------------------------------------
(* Geometry of the device and of the reserved region.                      *)

NumBlocks == 4
PageSize == 2
PagesPerBlock == 12
TableStart == 1
TableEnd == 3

(* Bounds of the exploration.                                              *)
MaxFaults == 1
MaxCycles == 1

(* Program constants.                                                      *)
kBlockListMax == 8
kReadAttempts == 6
UINT16_MAX == 65535
kNandBlockGood == 0
kNandBlockBad == 1
ErasedByte == 255

NULL == 0 - 1

\* The threads that call the object, and the cache of a partition device
\* before its first fetch (an empty fbl::Array).
Threads == {1, 2}
NoList == <<>>

\* A thread outside the object: it has no call in progress.
IdlePc == [at |-> "idle", op |-> "none", block |-> 0, left |-> 0]

Blocks == 0 .. (NumBlocks - 1)
Reserved == TableStart .. TableEnd
Byte == {kNandBlockGood, kNandBlockBad, ErasedByte}

\* bbt_page_count / page_stride
Stride == (NumBlocks + PageSize - 1) \div PageSize

\* The data VMO is mapped in whole pages, so the buffer extends past
\* table_len_: it holds at least the bytes one record covers and the byte
\* at index table_len_.
BufLen == IF Stride * PageSize > NumBlocks THEN Stride * PageSize ELSE NumBlocks + 1

----------------------------------------------------------------------------
(* The NAND array.                                                         *)

RECURSIVE BitAnd(_, _)
BitAnd(a, b) ==
    IF a = 0 \/ b = 0 THEN 0
    ELSE 2 * BitAnd(a \div 2, b \div 2) + (IF a % 2 = 1 /\ b % 2 = 1 THEN 1 ELSE 0)

\* An erased page reads as all ones: no magic, every OOB field 0xFFFF.
ErasedPage ==
    [state |-> "erased", magic |-> FALSE, pe |-> UINT16_MAX, gen |-> UINT16_MAX,
     data |-> [k \in 0 .. (PageSize - 1) |-> ErasedByte]]

\* Programming can only clear bits: a page programmed twice without an
\* erase in between holds the AND of the two images.
Program(old, new) ==
    IF old.state = "erased" THEN new
    ELSE IF old.state = "torn" THEN old
    ELSE [state |-> "prog",
          magic |-> old.magic /\ new.magic,
          pe    |-> BitAnd(old.pe, new.pe),
          gen   |-> BitAnd(old.gen, new.gen),
          data  |-> [k \in 0 .. (PageSize - 1) |-> BitAnd(old.data[k], new.data[k])]]

ErasedBlock == [p \in 0 .. (PagesPerBlock - 1) |-> ErasedPage]

\* Page i of the image of table t, with OOB {magic, pe, gen}.
RecordPage(t, pe, gen, i) ==
    [state |-> "prog", magic |-> TRUE, pe |-> pe, gen |-> gen,
     data |-> [k \in 0 .. (PageSize - 1) |-> t[i * PageSize + k]]]


----------------------------------------------------------------------------
(* Fault events.  A call runs under a set F of them.                       *)

Ev(k, a, b) == [k |-> k, a |-> a, b |-> b]

EraseEvents == {Ev("erase", b, 0) : b \in Reserved}
\* the write of page i of a record to block b: "wfail" returns an error and
\* leaves the page as it was; "wcrash" is a power loss before the page is
\* programmed (before page 0 it is a power cycle between calls, which
\* PowerCycle covers); "wtear" a power loss that leaves the page unreadable.
WriteEvents ==
    {Ev(k, b, i) : k \in {"wfail", "wtear"}, b \in Reserved, i \in 0 .. (Stride - 1)}
    \cup {Ev("wcrash", b, i) : b \in Reserved, i \in 1 .. (Stride - 1)}
\* the first n reads of block b in the candidate scan fail
ProbeEvents == {Ev("probe", b, n) : b \in Reserved, n \in {1, kReadAttempts}}
\* the read of the first page of window w of the host fails in the window scan
ScanEvents == {Ev("scan", w, 0) : w \in 0 .. ((PagesPerBlock \div Stride) - 1)}
\* the re-read of page i of the latest window fails ("rrfail") or returns
\* an OOB without the magic ("rrnomagic")
RereadEvents == {Ev(k, i, 0) : k \in {"rrfail", "rrnomagic"}, i \in 0 .. (Stride - 1)}

ReadEvents == ProbeEvents \cup RereadEvents
FaultEvents == EraseEvents \cup WriteEvents \cup ReadEvents

----------------------------------------------------------------------------
(* Status codes.                                                           *)

ZX_OK == "ZX_OK"
ZX_ERR_IO == "ZX_ERR_IO"
ZX_ERR_INTERNAL == "ZX_ERR_INTERNAL"
ZX_ERR_NOT_FOUND == "ZX_ERR_NOT_FOUND"
ZX_ERR_NOT_SUPPORTED == "ZX_ERR_NOT_SUPPORTED"
ZX_ERR_OUT_OF_RANGE == "ZX_ERR_OUT_OF_RANGE"
ZX_ERR_INVALID_ARGS == "ZX_ERR_INVALID_ARGS"
POWER_LOSS == "POWER_LOSS"

----------------------------------------------------------------------------
(* The machine record threaded through the helpers: the object's fields,   *)
(* the flash, the OOB buffer, the status of the last step, whether power   *)
(* was lost, and a log of the call: the blocks it erased, the pages it     *)
(* wrote, whether it wrote a page that was not erased, the blocks it       *)
(* marked bad after a failed page write (failed) or a failed erase         *)
(* (unerasable), the bad blocks of the table                               *)
(* discovery loaded, the records it completed, the fault events that hit   *)
(* it, the number of NAND operations it queued (ops), and whether it       *)
(* issued a page write to a block that was not good in the table           *)
(* (wrotebad), and the blocks GetNewBlock made the host, in order          *)
(* (elected), and the blocks an erase or a page write was issued to        *)
(* (targets).                                                              *)

NoEntry == [block |-> 0, program_erase_cycles |-> 0, valid |-> FALSE]
NoOob == [magic |-> FALSE, pe |-> 0, gen |-> 0]

Machine ==
    [table |-> table_, bl |-> block_list_, be |-> block_entry_, page |-> page_,
     gen |-> generation_, found |-> found_, flash |-> flash, oob |-> NoOob,
     status |-> ZX_OK, crashed |-> FALSE,
     erased |-> {}, written |-> {}, overwrote |-> FALSE, failed |-> {},
     unerasable |-> {}, loaded |-> {}, persisted |-> <<>>, used |-> {},
     ops |-> 0, wrotebad |-> FALSE, elected |-> <<>>, targets |-> {}]

\* AmlBadBlock::EraseBlock
EraseBlock(m, block, F) ==
    IF Ev("erase", block, 0) \in F
    THEN [m EXCEPT !.ops = @ + 1, !.targets = @ \cup {block},
                   !.status = ZX_ERR_IO, !.used = @ \cup {Ev("erase", block, 0)}]
    ELSE [m EXCEPT !.ops = @ + 1, !.targets = @ \cup {block}, !.status = ZX_OK,
                   !.flash[block] = ErasedBlock,
                   !.erased = @ \cup {block}]

\* AmlBadBlock::WritePage: programs one page from the data buffer at page
\* offset data_offset, with the OOB buffer.
WritePage(m, nand_page, data_offset, F) ==
    LET b == nand_page \div PagesPerBlock
        p == nand_page % PagesPerBlock
        new == [state |-> "prog", magic |-> m.oob.magic, pe |-> m.oob.pe,
                gen |-> m.oob.gen,
                data |-> [k \in 0 .. (PageSize - 1) |-> m.table[data_offset * PageSize + k]]]
    IN  IF Ev("wfail", b, data_offset) \in F
        THEN [m EXCEPT !.ops = @ + 1, !.targets = @ \cup {b},
                       !.wrotebad = @ \/ m.table[b] # kNandBlockGood,
                       !.status = ZX_ERR_IO, !.used = @ \cup {Ev("wfail", b, data_offset)}]
        ELSE IF Ev("wcrash", b, data_offset) \in F
        THEN [m EXCEPT !.ops = @ + 1, !.targets = @ \cup {b},
                       !.wrotebad = @ \/ m.table[b] # kNandBlockGood,
                       !.status = POWER_LOSS, !.crashed = TRUE,
                       !.used = @ \cup {Ev("wcrash", b, data_offset)}]
        ELSE IF Ev("wtear", b, data_offset) \in F
        THEN [m EXCEPT !.ops = @ + 1, !.targets = @ \cup {b},
                       !.wrotebad = @ \/ m.table[b] # kNandBlockGood,
                       !.status = POWER_LOSS, !.crashed = TRUE,
                       !.flash[b][p].state = "torn",
                       !.used = @ \cup {Ev("wtear", b, data_offset)}]
        ELSE [m EXCEPT !.ops = @ + 1, !.targets = @ \cup {b},
                       !.wrotebad = @ \/ m.table[b] # kNandBlockGood,
                       !.status = ZX_OK,
                       !.flash[b][p] = Program(@, new),
                       !.written = @ \cup {nand_page},
                       !.overwrote = @ \/ (m.flash[b][p].state # "erased")]

\* AmlBadBlock::ReadPage: reads one page into the data buffer at page offset
\* data_offset and its OOB into the OOB buffer.  fail and nomagic are the
\* fault events of F that hit this read (at most one event each).
ReadPage(m, nand_page, data_offset, fail, nomagic) ==
    LET b == nand_page \div PagesPerBlock
        p == nand_page % PagesPerBlock
    IN  IF fail # {} \/ b \notin Blocks \/ m.flash[b][p].state = "torn"
        THEN [m EXCEPT !.ops = @ + 1, !.status = ZX_ERR_IO, !.used = @ \cup fail]
        ELSE LET pg == m.flash[b][p]
             IN  [m EXCEPT !.ops = @ + 1, !.status = ZX_OK,
                           !.used = @ \cup nomagic,
                           !.oob = [magic |-> pg.magic /\ nomagic = {}, pe |-> pg.pe, gen |-> pg.gen],
                           !.table = [k \in 0 .. (BufLen - 1) |->
                                        IF k \div PageSize = data_offset
                                        THEN pg.data[k % PageSize] ELSE @[k]]]


----------------------------------------------------------------------------
(* The helpers below follow the source statement by statement.  Where the  *)
(* source goes on after a call, the rest of the function is an operator    *)
(* that takes the machine the call left.                                   *)

(* Reserved-region selection.                                              *)

\* The inner for loop of GetNewBlock: the index of the first valid entry,
\* other than the current host, with the least program_erase_cycles below
\* UINT16_MAX; kBlockListMax when there is none.
RECURSIVE LeastPeIndexLast(_, _, _, _, _)
\* The same loop, had it compared with <=: among equally worn entries the
\* last one wins.
LeastPeIndexLast(bl, be, i, least_pe_cycles, index) ==
    IF i >= kBlockListMax THEN index
    ELSE IF bl[i].valid /\ i # be /\ bl[i].program_erase_cycles <= least_pe_cycles
         THEN LeastPeIndexLast(bl, be, i + 1, bl[i].program_erase_cycles, i)
         ELSE LeastPeIndexLast(bl, be, i + 1, least_pe_cycles, index)

RECURSIVE LeastPeIndex(_, _, _, _, _)
LeastPeIndex(bl, be, i, least_pe_cycles, index) ==
    IF i >= kBlockListMax THEN index
    ELSE IF bl[i].valid /\ i # be /\ bl[i].program_erase_cycles < least_pe_cycles
         THEN LeastPeIndex(bl, be, i + 1, bl[i].program_erase_cycles, i)
         ELSE LeastPeIndex(bl, be, i + 1, least_pe_cycles, index)

RECURSIVE GetNewBlock(_, _)
RECURSIVE GetNewBlockAt(_, _, _)
RECURSIVE GetNewBlockErased(_, _, _)

\* GetNewBlock after EraseBlock returned, had it given up at the first
\* failed erase and returned its status.
GetNewBlockErasedOnce(e, index, F) ==
    IF e.status # ZX_OK
    THEN [e EXCEPT !.table[e.bl[index].block] = kNandBlockBad,
                   !.bl[index].valid = FALSE,
                   !.unerasable = @ \cup {e.bl[index].block}]
    ELSE [e EXCEPT !.be = index,
                   !.bl[index].program_erase_cycles = (@ + 1) % (UINT16_MAX + 1),
                   !.page = 0,
                   !.elected = Append(@, e.bl[index].block),
                   !.status = ZX_OK]

\* GetNewBlock after EraseBlock returned: on failure the block is marked
\* bad, its entry invalidated and the search starts over; on success the
\* entry becomes the host.
GetNewBlockErased(e, index, F) ==
    IF e.status # ZX_OK
    THEN GetNewBlock([e EXCEPT !.table[e.bl[index].block] = kNandBlockBad,
                               !.bl[index].valid = FALSE,
                               !.unerasable = @ \cup {e.bl[index].block}], F)
    ELSE [e EXCEPT !.be = index,
                   !.bl[index].program_erase_cycles = (@ + 1) % (UINT16_MAX + 1),
                   !.page = 0,
                   !.elected = Append(@, e.bl[index].block),
                   !.status = ZX_OK]

\* GetNewBlock after the search, had it not looked the block up in the
\* table before erasing it.
GetNewBlockAtAny(m, index, F) ==
    IF index = kBlockListMax
    THEN [m EXCEPT !.status = ZX_ERR_NOT_FOUND]
    ELSE GetNewBlockErased(EraseBlock(m, m.bl[index].block, F), index, F)

\* GetNewBlock after the search, had it erased the block numbered like
\* the entry's index in block_list_ rather than the entry's block.
GetNewBlockAtIndex(m, index, F) ==
    IF index = kBlockListMax
    THEN [m EXCEPT !.status = ZX_ERR_NOT_FOUND]
    ELSE IF m.table[m.bl[index].block] # kNandBlockGood
    THEN GetNewBlock([m EXCEPT !.bl[index].valid = FALSE], F)
    ELSE GetNewBlockErased(EraseBlock(m, index, F), index, F)

\* GetNewBlock after the search for the least-worn entry returned index.
GetNewBlockAt(m, index, F) ==
    IF index = kBlockListMax
    THEN [m EXCEPT !.status = ZX_ERR_NOT_FOUND]
    ELSE IF m.table[m.bl[index].block] # kNandBlockGood
    THEN GetNewBlock([m EXCEPT !.bl[index].valid = FALSE], F)
    ELSE GetNewBlockErased(EraseBlock(m, m.bl[index].block, F), index, F)

\* AmlBadBlock::GetNewBlock
GetNewBlock(m, F) ==
    GetNewBlockAt(m, LeastPeIndex(m.bl, m.be, 0, UINT16_MAX, kBlockListMax), F)

----------------------------------------------------------------------------
(* The writer.                                                             *)

RECURSIVE WritePages(_, _, _, _)
\* The page loop after WritePage returned.
WritePagesNext(w, block, i, F) ==
    IF w.status # ZX_OK THEN w ELSE WritePages(w, block, i + 1, F)

\* The page loop of WriteBadBlockTable: writes pages i .. Stride-1 of the
\* record to the host at page_, stopping at the first failure.
WritePages(m, block, i, F) ==
    IF i >= Stride THEN [m EXCEPT !.status = ZX_OK]
    ELSE WritePagesNext(WritePage(m, block * PagesPerBlock + m.page + i, i, F),
                        block, i, F)

RECURSIVE WriteBadBlockTable(_, _, _)

\* WriteBadBlockTable after the page loop: a failed write marks the host
\* bad and the do-while loop runs again; success advances page_ and G.
WriteDone(w, F) ==
    IF w.crashed THEN w
    ELSE IF w.status # ZX_OK
    THEN WriteBadBlockTable([w EXCEPT !.table[w.bl[w.be].block] = kNandBlockBad,
                                      !.failed = @ \cup {w.bl[w.be].block}], FALSE, F)
    ELSE [w EXCEPT !.page = @ + Stride,
                   !.gen = (@ + 1) % (UINT16_MAX + 1),
                   !.status = ZX_OK,
                   !.persisted = Append(@, [block |-> w.bl[w.be].block,
                                            page |-> w.page,
                                            bad |-> {b \in Blocks :
                                                       w.table[b] # kNandBlockGood}])]

\* "Perform write": fill the OOB buffer and write the record to the host.
WriteRecord(g, F) ==
    WriteDone(WritePages([g EXCEPT !.oob = [magic |-> TRUE,
                                            pe |-> g.bl[g.be].program_erase_cycles,
                                            gen |-> g.gen]],
                         g.bl[g.be].block, 0, F),
              F)

\* WriteBadBlockTable after GetNewBlock returned.
WriteSelected(g, F) == IF g.status # ZX_OK THEN g ELSE WriteRecord(g, F)

\* AmlBadBlock::WriteBadBlockTable
WriteBadBlockTable(m, use_new_block, F) ==
    IF \/ use_new_block
       \/ m.table[m.bl[m.be].block] # kNandBlockGood
       \/ m.page + Stride > PagesPerBlock
    THEN WriteSelected(GetNewBlock(m, F), F)
    ELSE WriteRecord(m, F)

----------------------------------------------------------------------------
(* Discovery.                                                              *)

OobSize == 8
kOobMetadataSize == 8

\* The read loop of the candidate scan: up to kReadAttempts reads of block,
\* at page offsets 0, Stride, 2*Stride, ..., until one succeeds.
RECURSIVE ProbeBlock(_, _, _, _)
ProbeBlock(m, block, i, F) ==
    IF i >= kReadAttempts \/ m.status = ZX_OK THEN m
    ELSE ProbeBlock(ReadPage(m, block * PagesPerBlock + i * Stride, 0,
                             {e \in F : e.k = "probe" /\ e.a = block /\ i < e.b}, {}),
                    block, i + 1, F)

\* The candidate scan with the election reversed: a readable block with the
\* magic becomes the host when no host was elected yet or its generation is
\* not above generation_.
CandidateOldest(r, block, valid_blocks) ==
    [r EXCEPT !.bl[valid_blocks] = [block |-> block,
                                    program_erase_cycles |-> r.oob.pe,
                                    valid |-> TRUE],
              !.be = IF r.oob.magic /\ (r.be = NULL \/ r.oob.gen <= r.gen)
                     THEN valid_blocks ELSE @,
              !.gen = IF r.oob.magic /\ (r.be = NULL \/ r.oob.gen <= r.gen)
                      THEN r.oob.gen ELSE @]

\* A readable block becomes entry valid_blocks of block_list_, and the host
\* when its OOB carries the magic and a generation not below generation_.
Candidate(r, block, valid_blocks) ==
    [r EXCEPT !.bl[valid_blocks] = [block |-> block,
                                    program_erase_cycles |-> r.oob.pe,
                                    valid |-> TRUE],
              !.be = IF r.oob.magic /\ r.oob.gen >= r.gen THEN valid_blocks ELSE @,
              !.gen = IF r.oob.magic /\ r.oob.gen >= r.gen THEN r.oob.gen ELSE @]

RECURSIVE LocateHosts(_, _, _, _)
\* The candidate scan after the reads of block returned.
LocateNext(r, block, valid_blocks, F) ==
    IF r.status # ZX_OK
    THEN LocateHosts(r, block + 1, valid_blocks, F)
    ELSE LocateHosts(Candidate(r, block, valid_blocks), block + 1, valid_blocks + 1, F)

\* The candidate scan of FindBadBlockTable: fills block_list_ with the
\* readable reserved blocks and elects the host.
LocateHosts(m, block, valid_blocks, F) ==
    IF block > TableEnd THEN m
    ELSE LocateNext(ProbeBlock([m EXCEPT !.status = ZX_ERR_INTERNAL], block, 0, F),
                    block, valid_blocks, F)

RECURSIVE ScanWindow(_, _, _, _)
\* The page loop over one window after ReadPage returned.
ScanWindowNext(r, page, i, F) ==
    IF r.status # ZX_OK \/ ~r.oob.magic THEN r ELSE ScanWindow(r, page, i + 1, F)

\* The page loop over one window of the host: stops at the first page that
\* cannot be read or lacks the magic.
ScanWindow(m, page, i, F) ==
    IF i >= Stride THEN m
    ELSE ScanWindowNext(ReadPage(m, m.bl[m.be].block * PagesPerBlock + page + i, i,
                                 {e \in F : e.k = "scan" /\ e.a = page \div Stride /\ i = 0},
                                 {}),
                        page, i, F)

RECURSIVE ScanHost(_, _, _, _, _)
\* The window scan after the page loop over the window at page returned.
ScanHostNext(r, page, found_one, latest_entry_bad, F) ==
    IF r.status # ZX_OK
    THEN ScanHost(r, page + Stride, found_one, TRUE, F)
    ELSE IF ~r.oob.magic
    THEN [m |-> r, found_one |-> found_one, latest_entry_bad |-> latest_entry_bad]
    ELSE ScanHost([r EXCEPT !.page = page,
                            !.gen = (r.oob.gen + 1) % (UINT16_MAX + 1)],
                  page + Stride, TRUE, FALSE, F)

\* The window scan of FindBadBlockTable.
ScanHost(m, page, found_one, latest_entry_bad, F) ==
    IF page + Stride > PagesPerBlock
    THEN [m |-> m, found_one |-> found_one, latest_entry_bad |-> latest_entry_bad]
    ELSE ScanHostNext(ScanWindow([m EXCEPT !.status = ZX_OK], page, 0, F),
                      page, found_one, latest_entry_bad, F)

RECURSIVE Reread(_, _, _)
\* The re-read loop after ReadPage returned.
RereadNext(r, i, F) ==
    IF r.status # ZX_OK \/ ~r.oob.magic
    THEN [m |-> r, returned |-> TRUE]
    ELSE Reread(r, i + 1, F)

\* The re-read of the latest complete window.  returned: the loop left the
\* function, with m.status as the function's result.
Reread(m, i, F) ==
    IF i >= Stride THEN [m |-> m, returned |-> FALSE]
    ELSE RereadNext(ReadPage(m, m.bl[m.be].block * PagesPerBlock + m.page + i, i,
                             {e \in F : e.k = "rrfail" /\ e.a = i},
                             {e \in F : e.k = "rrnomagic" /\ e.a = i}),
                    i, F)

\* FindBadBlockTable after WriteBadBlockTable(true) returned.
FindMoved(w) ==
    IF w.crashed THEN w
    ELSE IF w.status # ZX_OK
    THEN [w EXCEPT !.status = ZX_ERR_NOT_SUPPORTED]
    ELSE [w EXCEPT !.found = TRUE, !.status = ZX_OK]

\* The blocks that are not good in table t.
BadSet(t) == {b \in Blocks : t[b] # kNandBlockGood}

\* FindBadBlockTable after the re-read, had it never moved the table.
FindLoadedInPlace(rr, latest_entry_bad, F) ==
    IF rr.returned THEN rr.m
    ELSE [rr.m EXCEPT !.page = @ + Stride, !.found = TRUE, !.status = ZX_OK,
                      !.loaded = BadSet(rr.m.table)]

\* FindBadBlockTable after the re-read.
FindLoaded(rr, latest_entry_bad, F) ==
    IF rr.returned THEN rr.m
    ELSE IF latest_entry_bad
    THEN FindMoved(WriteBadBlockTable([rr.m EXCEPT !.loaded = BadSet(rr.m.table)], TRUE, F))
    ELSE [rr.m EXCEPT !.page = @ + Stride, !.found = TRUE, !.status = ZX_OK,
                      !.loaded = BadSet(rr.m.table)]

\* FindBadBlockTable after the window scan.
FindLatest(s, F) ==
    IF ~s.found_one THEN [s.m EXCEPT !.status = ZX_ERR_NOT_FOUND]
    ELSE FindLoaded(Reread(s.m, 0, F), s.latest_entry_bad, F)

\* FindBadBlockTable after the candidate scan.
FindHost(l, F) ==
    IF l.be = NULL THEN [l EXCEPT !.status = ZX_ERR_INTERNAL]
    ELSE FindLatest(ScanHost(l, 0, FALSE, TRUE, F), F)

\* uint32_t blocks = table_end_block - table_start_block: a negative
\* difference wraps to a value above every block count (shown as 2^31 - 1).
BlocksIn(table_start_block, table_end_block) ==
    IF table_end_block >= table_start_block
    THEN table_end_block - table_start_block
    ELSE 2147483647
BlocksInRange == BlocksIn(TableStart, TableEnd)

\* The range check of FindBadBlockTable on the number it computed.
Unsupported(blocks) == blocks = 0 \/ blocks > kBlockListMax

\* AmlBadBlock::FindBadBlockTable
FindBadBlockTable(m, F) ==
    IF kOobMetadataSize > OobSize THEN [m EXCEPT !.status = ZX_ERR_NOT_SUPPORTED]
    ELSE IF Unsupported(BlocksInRange)
    THEN [m EXCEPT !.status = ZX_ERR_NOT_SUPPORTED]
    ELSE FindHost(LocateHosts([m EXCEPT !.be = NULL], TableStart, 0, F), F)

----------------------------------------------------------------------------
(* The public entry points, as functions of the machine, the arguments and *)
(* the faults of the call.  Each returns the machine after the call, with  *)
(* m.status the call's result.                                             *)

\* The lazy discovery every entry point starts with.
Discover(m, F) == IF m.found THEN [m EXCEPT !.status = ZX_OK] ELSE FindBadBlockTable(m, F)

\* The blocks of first_block .. last_block - 1 that are not good, ascending.
RECURSIVE BadBlocksFrom(_, _, _)
BadBlocksFrom(t, block, last_block) ==
    IF block >= last_block THEN <<>>
    ELSE IF t[block] # kNandBlockGood
         THEN <<block>> \o BadBlocksFrom(t, block + 1, last_block)
         ELSE BadBlocksFrom(t, block + 1, last_block)

\* GetBadBlockList after discovery, had its scan started one block late.
ListFoundLate(d, first_block, last_block) ==
    IF d.crashed \/ d.status # ZX_OK THEN [m |-> d, list |-> <<>>]
    ELSE IF first_block >= NumBlocks \/ last_block > NumBlocks
    THEN [m |-> [d EXCEPT !.status = ZX_ERR_INVALID_ARGS], list |-> <<>>]
    ELSE [m |-> [d EXCEPT !.status = ZX_OK],
          list |-> BadBlocksFrom(d.table, first_block + 1, last_block)]

\* GetBadBlockList after discovery.
ListFound(d, first_block, last_block) ==
    IF d.crashed \/ d.status # ZX_OK THEN [m |-> d, list |-> <<>>]
    ELSE IF first_block >= NumBlocks \/ last_block > NumBlocks
    THEN [m |-> [d EXCEPT !.status = ZX_ERR_INVALID_ARGS], list |-> <<>>]
    ELSE [m |-> [d EXCEPT !.status = ZX_OK],
          list |-> BadBlocksFrom(d.table, first_block, last_block)]

\* AmlBadBlock::GetBadBlockList
GetBadBlockList(m, first_block, last_block, F) ==
    ListFound(Discover(m, F), first_block, last_block)

\* IsBlockBad after discovery, had it rejected block = num_blocks as well.
IsBadFoundStrict(d, block) ==
    IF d.crashed \/ d.status # ZX_OK THEN [m |-> d, is_bad |-> FALSE]
    ELSE IF block >= NumBlocks
    THEN [m |-> [d EXCEPT !.status = ZX_ERR_OUT_OF_RANGE], is_bad |-> FALSE]
    ELSE [m |-> [d EXCEPT !.status = ZX_OK],
          is_bad |-> d.table[block] # kNandBlockGood]

\* IsBlockBad after discovery.
IsBadFound(d, block) ==
    IF d.crashed \/ d.status # ZX_OK THEN [m |-> d, is_bad |-> FALSE]
    ELSE IF block > NumBlocks
    THEN [m |-> [d EXCEPT !.status = ZX_ERR_OUT_OF_RANGE], is_bad |-> FALSE]
    ELSE [m |-> [d EXCEPT !.status = ZX_OK],
          is_bad |-> d.table[block] # kNandBlockGood]

\* AmlBadBlock::IsBlockBad
IsBlockBad(m, block, F) == IsBadFound(Discover(m, F), block)

RolledBack(w, block) ==
    IF w.crashed \/ w.status = ZX_OK THEN w
    ELSE [w EXCEPT !.table[block] = kNandBlockGood]

\* MarkBlockBad after discovery, had it restored the entry when the
\* writer fails.
MarkFoundRollback(d, block, F) ==
    IF d.crashed \/ d.status # ZX_OK THEN d
    ELSE IF block > NumBlocks THEN [d EXCEPT !.status = ZX_ERR_OUT_OF_RANGE]
    ELSE IF d.table[block] # kNandBlockGood THEN [d EXCEPT !.status = ZX_OK]
    ELSE RolledBack(WriteBadBlockTable([d EXCEPT !.table[block] = kNandBlockBad], FALSE, F),
                    block)

\* MarkBlockBad after discovery.
MarkFound(d, block, F) ==
    IF d.crashed \/ d.status # ZX_OK THEN d
    ELSE IF block > NumBlocks THEN [d EXCEPT !.status = ZX_ERR_OUT_OF_RANGE]
    ELSE IF d.table[block] # kNandBlockGood THEN [d EXCEPT !.status = ZX_OK]
    ELSE WriteBadBlockTable([d EXCEPT !.table[block] = kNandBlockBad], FALSE, F)

\* AmlBadBlock::MarkBlockBad
MarkBlockBad(m, block, F) == MarkFound(Discover(m, F), block, F)

----------------------------------------------------------------------------
(* The state machine.                                                      *)

\* The object as constructed: an all-good table, no entries, no host.
FreshTable == [k \in 0 .. (BufLen - 1) |-> kNandBlockGood]
FreshList == [i \in 0 .. (kBlockListMax - 1) |-> NoEntry]

\* The operations a client can queue on a partition: none has been queued.
MaxOps == 2
OpIds == 1 .. MaxOps
NoOp == [command |-> "none", offset_nand |-> 0, first_block |-> 0]
NoOps == [id \in OpIds |-> [at |-> "client", op |-> NoOp, translated_op |-> NoOp,
                            completion_cb |-> <<>>, parent |-> <<>>]]

NoRet == [op |-> "none", block |-> 0, status |-> ZX_OK, persisted |-> <<>>,
          wrotebad |-> FALSE]

\* hist, kept while found_ holds: the bad blocks of the table discovery
\* loaded, the blocks mark_bad was called with since, the blocks the
\* object marked bad itself after a failed page write (failed) or a failed
\* erase (unerasable), and whether every call since returned ZX_OK.
NoHist == [inherited |-> {}, marked |-> {}, failed |-> {}, unerasable |-> {},
           clean |-> TRUE]

\* A reserved block holding n complete records of table t, generations
\* g .. g+n-1, written after one erase.
HostBlock(t, pe, g, n) ==
    [p \in 0 .. (PagesPerBlock - 1) |->
        IF p \div Stride < n
        THEN RecordPage(t, pe, g + (p \div Stride), p % Stride)
        ELSE ErasedPage]

\* The same block after power was lost while record n+1, of table t2, was
\* being written: its last page is unreadable, or was never programmed.
TornBlock(t, t2, pe, g, n, tail) ==
    [p \in 0 .. (PagesPerBlock - 1) |->
        IF p \div Stride # n THEN HostBlock(t, pe, g, n)[p]
        ELSE IF p % Stride < Stride - 1 THEN RecordPage(t2, pe, g + n, p % Stride)
        ELSE IF tail = "unreadable" THEN [ErasedPage EXCEPT !.state = "torn"]
        ELSE ErasedPage]

\* The flash images the device starts from: a virgin device; a device
\* whose first reserved block hosts n records of the all-good table
\* (generation 1 onward) and whose other reserved blocks are erased or hold
\* one older record; and such a device after power was lost during the
\* write of a record marking block 0.
NumWindows == PagesPerBlock \div Stride
InitRecords == {NumWindows - 1}
InitOthers == {"erased", "stale"}
InitTails == {"unreadable", "nomagic"}

VirginFlash == [b \in Blocks |-> ErasedBlock]
FormattedFlash(n, others) ==
    [b \in Blocks |->
        IF b = TableStart THEN HostBlock(FreshTable, 1, 1, n)
        ELSE IF b \in Reserved /\ others = "stale" THEN HostBlock(FreshTable, 1, 0, 1)
        ELSE ErasedBlock]
TornFlash(n, tail) ==
    [FormattedFlash(n, "stale") EXCEPT
        ![TableStart] = TornBlock(FreshTable, [FreshTable EXCEPT ![0] = kNandBlockBad],
                                  1, 1, n, tail)]

InitFlash ==
    {VirginFlash}
    \cup {FormattedFlash(n, o) : n \in InitRecords, o \in InitOthers}
    \cup {TornFlash(n - 1, tail) : n \in InitRecords, tail \in InitTails}

Init ==
    /\ table_ = FreshTable
    /\ block_list_ = FreshList
    /\ block_entry_ = NULL
    /\ page_ = 0
    /\ generation_ = 0
    /\ found_ = FALSE
    /\ flash \in InitFlash
    /\ ret = NoRet
    /\ hist = NoHist
    /\ faults = 0
    /\ readfaults = 0
    /\ cycles = 0
    /\ config_ = [table_start_block |-> TableStart, table_end_block |-> TableEnd]
    /\ lock_ = NULL
    /\ pc = [t \in Threads |-> IdlePc]
    /\ inflight = 0
    /\ bad_block_list_ = NoList
    /\ nand_ops = NoOps
    /\ erase_block_start_ = 0

\* The sets of at most n fault events.
RECURSIVE PlansUpTo(_, _)
PlansUpTo(E, n) ==
    IF n = 0 THEN {{}}
    ELSE LET P == PlansUpTo(E, n - 1)
         IN  P \cup {q \cup {e} : q \in P, e \in E}

CrashEvents == {e \in WriteEvents : e.k \in {"wcrash", "wtear"}}

\* The fault sets a call may run under: read faults only while discovery
\* is still to run, a power loss only while a power cycle is left.
Plans ==
    PlansUpTo((IF found_ THEN {} ELSE ReadEvents)
              \cup EraseEvents
              \cup (IF cycles < MaxCycles THEN WriteEvents ELSE WriteEvents \ CrashEvents),
              MaxFaults - faults)

\* The state after a call that ran under faults F and left machine m: the
\* object's fields and the flash; after a power loss, a newly constructed
\* object over the flash.  ret records the call, its result and the
\* records it completed, in order (host block, page offset, bad blocks
\* recorded), and whether it issued a page write to a block that was not
\* good in the table.
CommitObject(m, op, block, F) ==
    /\ m.used = F
    /\ flash' = m.flash
    /\ faults' = faults + Cardinality(F)
    /\ readfaults' = readfaults + Cardinality(F \cap ReadEvents)
    /\ IF m.crashed
       THEN /\ table_' = FreshTable
            /\ block_list_' = FreshList
            /\ block_entry_' = NULL
            /\ page_' = 0
            /\ generation_' = 0
            /\ found_' = FALSE
            /\ cycles' = cycles + 1
            /\ hist' = NoHist
       ELSE /\ table_' = m.table
            /\ block_list_' = m.bl
            /\ block_entry_' = m.be
            /\ page_' = m.page
            /\ generation_' = m.gen
            /\ found_' = m.found
            /\ cycles' = cycles
            /\ hist' = IF ~m.found THEN NoHist
                       ELSE [inherited |-> IF found_ THEN hist.inherited ELSE m.loaded,
                             marked |-> hist.marked \cup
                                        (IF op = "mark_bad" /\ block < NumBlocks
                                         THEN {block} ELSE {}),
                             failed |-> hist.failed \cup m.failed,
                             unerasable |-> hist.unerasable \cup m.unerasable,
                             clean |-> hist.clean /\ m.status = ZX_OK]

\* What ret records of a call that left machine m.
RetOf(m, op, block) ==
    IF m.crashed
    THEN [op |-> op, block |-> block, status |-> POWER_LOSS,
          persisted |-> <<>>, wrotebad |-> m.wrotebad]
    ELSE [op |-> op, block |-> block, status |-> m.status,
          persisted |-> m.persisted, wrotebad |-> m.wrotebad]

CommitCore(m, op, block, F) ==
    CommitObject(m, op, block, F) /\ ret' = RetOf(m, op, block)

\* A call of the single-threaded specifications: nothing around the core
\* changes.
Commit(m, op, block, F) == CommitCore(m, op, block, F) /\ UNCHANGED surroundings

BlockArgs == 0 .. (NumBlocks - 1)
ListArgs == {<<0, NumBlocks>>, <<TableStart, NumBlocks>>, <<0, NumBlocks + 1>>}

\* A query of an object that has found its table touches neither the
\* object nor the flash; its result is GetBadBlockList / IsBlockBad of the
\* state.  A query that runs discovery leaves what discovery left.
DoGetBadBlockList ==
    \E a \in ListArgs, F \in Plans :
        IF found_ THEN F = {} /\ UNCHANGED vars
        ELSE Commit(GetBadBlockList(Machine, a[1], a[2], F).m, "list_bad", 0, F)

DoIsBlockBad ==
    \E block \in BlockArgs, F \in Plans :
        IF found_ THEN F = {} /\ UNCHANGED vars
        ELSE Commit(IsBlockBad(Machine, block, F).m, "is_bad", 0, F)

DoMarkBlockBad ==
    \E block \in BlockArgs, F \in Plans :
        Commit(MarkBlockBad(Machine, block, F), "mark_bad", block, F)

\* The device is power cycled between two calls: a new object is
\* constructed over the same flash.
PowerCycle ==
    /\ cycles < MaxCycles
    /\ cycles' = cycles + 1
    /\ table_' = FreshTable
    /\ block_list_' = FreshList
    /\ block_entry_' = NULL
    /\ page_' = 0
    /\ generation_' = 0
    /\ found_' = FALSE
    /\ ret' = [NoRet EXCEPT !.op = "power_cycle"]
    /\ hist' = NoHist
    /\ UNCHANGED <<flash, faults, readfaults>>
    /\ UNCHANGED surroundings

Next == DoGetBadBlockList \/ DoIsBlockBad \/ DoMarkBlockBad \/ PowerCycle

Spec == Init /\ [][Next]_vars

\* A second specification, for what several failing reads in one discovery
\* lead to: only page reads fail, at most MaxReadFaults of them, and the
\* callers only mark blocks bad.
MaxReadFaults == 2
ReadPlans == PlansUpTo(IF found_ THEN {} ELSE ReadEvents, MaxReadFaults - faults)

MarkUnderReadFaults ==
    \E block \in BlockArgs, F \in ReadPlans :
        Commit(MarkBlockBad(Machine, block, F), "mark_bad", block, F)

NextReadFaults == MarkUnderReadFaults \/ PowerCycle

SpecReadFaults == Init /\ [][NextReadFaults]_vars

\* A third specification, for reserved-region selection alone: GetNewBlock
\* is applied once to every reserved-region state of the object.  Entry i
\* of block_list_ is reserved block TableStart + i, valid or not, with a
\* wear count from PeValues; the host is any valid entry; every reserved
\* block is good or bad in T; any erase may fail.
PeValues == {0, 1, UINT16_MAX - 1, UINT16_MAX}
SelectEntries ==
    [block : {0}, program_erase_cycles : PeValues, valid : BOOLEAN]
SelectLists ==
    {[i \in 0 .. (kBlockListMax - 1) |->
        IF i <= TableEnd - TableStart
        THEN [f[i] EXCEPT !.block = TableStart + i]
        ELSE NoEntry] : f \in [0 .. (TableEnd - TableStart) -> SelectEntries]}
SelectTables ==
    {[k \in 0 .. (BufLen - 1) |-> IF k \in B THEN kNandBlockBad ELSE kNandBlockGood] :
        B \in SUBSET Reserved}

InitSelect ==
    /\ block_list_ \in SelectLists
    /\ block_entry_ \in {i \in 0 .. (TableEnd - TableStart) : block_list_[i].valid}
    /\ table_ \in SelectTables
    /\ page_ = Stride
    /\ generation_ = 1
    /\ found_ = TRUE
    /\ flash = FormattedFlash(1, "stale")
    /\ ret = NoRet
    /\ hist = NoHist
    /\ faults = 0
    /\ readfaults = 0
    /\ cycles = 0
    /\ config_ = [table_start_block |-> TableStart, table_end_block |-> TableEnd]
    /\ lock_ = NULL
    /\ pc = [t \in Threads |-> IdlePc]
    /\ inflight = 0
    /\ bad_block_list_ = NoList
    /\ nand_ops = NoOps
    /\ erase_block_start_ = 0

\* One call of GetNewBlock under the erase failures F.  ret records the
\* result, the host before the call and the failures.
DoGetNewBlock ==
    /\ ret.op = "none"
    /\ \E F \in SUBSET EraseEvents :
          LET m == GetNewBlock(Machine, F)
          IN  /\ m.used = F
              /\ table_' = m.table
              /\ block_list_' = m.bl
              /\ block_entry_' = m.be
              /\ page_' = m.page
              /\ flash' = m.flash
              /\ faults' = faults + Cardinality(F)
              /\ ret' = [op |-> "select", block |-> 0, status |-> m.status,
                         persisted |-> <<>>, prev |-> block_entry_, faults |-> F]
    /\ UNCHANGED <<generation_, found_, hist, readfaults, cycles>>
    /\ UNCHANGED surroundings

NextSelect == DoGetNewBlock

SpecSelect == InitSelect /\ [][NextSelect]_vars

----------------------------------------------------------------------------
(* The writer alone, from the same states, under any set of failing        *)
(* erases and failing page writes.                                         *)

\* The first page write of a record to a block fails.
FirstWriteEvents == {Ev("wfail", b, 0) : b \in Reserved}

\* One call of WriteBadBlockTable under the failures F.  ret records the
\* result, the records completed, the hosts elected in order, the blocks
\* whose page write or erase failed, and the failures.
DoWriteBadBlockTable ==
    /\ ret.op = "none"
    /\ \E use_new_block \in BOOLEAN, F \in SUBSET (EraseEvents \cup FirstWriteEvents) :
          LET m == WriteBadBlockTable(Machine, use_new_block, F)
          IN  /\ m.used = F
              /\ table_' = m.table
              /\ block_list_' = m.bl
              /\ block_entry_' = m.be
              /\ page_' = m.page
              /\ generation_' = m.gen
              /\ flash' = m.flash
              /\ faults' = faults + Cardinality(F)
              /\ ret' = [op |-> "write", block |-> 0, status |-> m.status,
                         persisted |-> m.persisted, wrotebad |-> m.wrotebad,
                         hosts |-> m.elected, failed |-> m.failed,
                         unerasable |-> m.unerasable, faults |-> F]
    /\ UNCHANGED <<found_, hist, readfaults, cycles>>
    /\ UNCHANGED surroundings

NextWriter == DoWriteBadBlockTable

SpecWriter == InitSelect /\ [][NextWriter]_vars

----------------------------------------------------------------------------
(* Threads calling the entry points.  Every entry point constructs an      *)
(* fbl::AutoLock on lock_ before anything else and holds it until it       *)
(* returns; each NAND operation of the call is queued and waited for       *)
(* before the next statement runs.  No operation fails here.               *)

\* The calls a thread makes: a data block, a reserved block and a block
\* number past the table.
ThreadBlocks == {0, TableStart, NumBlocks + 1}
ThreadCalls == [op : {"is_bad", "mark_bad"}, block : ThreadBlocks]
                   \cup [op : {"list_bad"}, block : {0}]

\* What the call c does to the object as it is now.
CallMachine(c) ==
    IF c.op = "list_bad" THEN GetBadBlockList(Machine, 0, NumBlocks, {}).m
    ELSE IF c.op = "is_bad" THEN IsBlockBad(Machine, c.block, {}).m
    ELSE MarkBlockBad(Machine, c.block, {})

\* The lock is taken without waiting for its holder.
LockAny(l) == TRUE

\* fbl::AutoLock's constructor returns once the mutex l is free.
LockFree(l) == l = NULL

\* Thread t calls an entry point and reaches the AutoLock.
Call(t) ==
    /\ pc[t].at = "idle"
    /\ \E c \in ThreadCalls :
          pc' = [pc EXCEPT ![t] = [at |-> "acquire", op |-> c.op, block |-> c.block,
                                   left |-> 0]]
    /\ UNCHANGED <<core, config_, lock_, inflight, bad_block_list_, erase_block_start_, nand_ops>>

\* The AutoLock is constructed: t holds lock_ and runs the body, which
\* will queue left NAND operations.
Acquire(t) ==
    /\ pc[t].at = "acquire"
    /\ LockFree(lock_)
    /\ lock_' = t
    /\ pc' = [pc EXCEPT ![t].at = "inside", ![t].left = CallMachine(pc[t]).ops]
    /\ UNCHANGED <<core, config_, inflight, bad_block_list_, erase_block_start_, nand_ops>>

\* EraseBlock / WritePage / ReadPage: t queues one operation and waits.
Queue(t) ==
    /\ pc[t].at = "inside"
    /\ pc[t].left > 0
    /\ inflight' = inflight + 1
    /\ pc' = [pc EXCEPT ![t].at = "waiting"]
    /\ UNCHANGED <<core, config_, lock_, bad_block_list_, erase_block_start_, nand_ops>>

\* CompletionCallback signals the completion t waits on.
Complete(t) ==
    /\ pc[t].at = "waiting"
    /\ inflight' = inflight - 1
    /\ pc' = [pc EXCEPT ![t].at = "inside", ![t].left = @ - 1]
    /\ UNCHANGED <<core, config_, lock_, bad_block_list_, erase_block_start_, nand_ops>>

\* The entry point returns, with ZX_OK or an error: the AutoLock goes out
\* of scope and the call has had its effect.
Return(t) ==
    /\ pc[t].at = "inside"
    /\ pc[t].left = 0
    /\ CommitCore(CallMachine(pc[t]), pc[t].op, pc[t].block, {})
    /\ lock_' = NULL
    /\ pc' = [pc EXCEPT ![t] = IdlePc]
    /\ UNCHANGED <<config_, inflight, bad_block_list_, erase_block_start_, nand_ops>>

\* A flash on which every call fails and one on which calls succeed.
ThreadFlash == {VirginFlash, FormattedFlash(NumWindows - 1, "stale")}

InitThreads ==
    /\ Init
    /\ flash \in ThreadFlash

NextThreads ==
    \E t \in Threads :
        Call(t) \/ Acquire(t) \/ Queue(t) \/ Complete(t) \/ Return(t)

SpecThreads == InitThreads /\ [][NextThreads]_vars

----------------------------------------------------------------------------
(* IsBlockBad and MarkBlockBad over every block argument, up to and past   *)
(* the length of the table.  No operation fails here.                      *)

ArgBlocks == 0 .. (NumBlocks + 2)

\* The object and the flash are as the call left them in machine m.
LeaveObject(m) ==
    /\ table_' = m.table
    /\ block_list_' = m.bl
    /\ block_entry_' = m.be
    /\ page_' = m.page
    /\ generation_' = m.gen
    /\ found_' = m.found
    /\ flash' = m.flash

\* IsBlockBad(block, &is_bad): ret records the status and, when it is
\* ZX_OK, the answer stored through is_bad.
DoIsBlockBadArg ==
    \E block \in ArgBlocks :
        LET r == IsBlockBad(Machine, block, {})
        IN  /\ LeaveObject(r.m)
            /\ ret' = [op |-> "is_bad", block |-> block, status |-> r.m.status,
                       persisted |-> r.m.persisted, wrotebad |-> r.m.wrotebad,
                       is_bad |-> r.is_bad]
            /\ UNCHANGED <<hist, faults, readfaults, cycles>>
            /\ UNCHANGED surroundings

\* MarkBlockBad(block)
DoMarkBlockBadArg ==
    \E block \in ArgBlocks :
        LET w == MarkBlockBad(Machine, block, {})
        IN  /\ LeaveObject(w)
            /\ ret' = [op |-> "mark_bad", block |-> block, status |-> w.status,
                       persisted |-> w.persisted, wrotebad |-> w.wrotebad,
                       is_bad |-> FALSE]
            /\ UNCHANGED <<hist, faults, readfaults, cycles>>
            /\ UNCHANGED surroundings

InitArgs ==
    /\ Init
    /\ flash # VirginFlash

NextArgs == DoIsBlockBadArg \/ DoMarkBlockBadArg

SpecArgs == InitArgs /\ [][NextArgs]_vars

----------------------------------------------------------------------------
(* Discovery under every configured reserved range, on a device of         *)
(* RangeBlocks blocks that holds no table: each block is erased or cannot  *)
(* be read at all.  FindBadBlockTable then runs its checks and the         *)
(* candidate scan, finds no host and returns.                              *)

RangeBlocks == 12
RangeStarts == 0 .. 2
RangeEnds == 0 .. (RangeBlocks - 1)
Configs == [table_start_block : RangeStarts, table_end_block : RangeEnds]

UnreadableBlock == [p \in 0 .. (PagesPerBlock - 1) |-> [ErasedPage EXCEPT !.state = "torn"]]
\* The flash with the blocks of U unreadable.
RangeFlash(U) ==
    [b \in 0 .. (RangeBlocks - 1) |-> IF b \in U THEN UnreadableBlock ELSE ErasedBlock]

\* One of the up to kReadAttempts reads of the block succeeds.
RangeReadable(f, block) ==
    /\ block \in DOMAIN f
    /\ \E i \in 0 .. (kReadAttempts - 1) : f[block][i * Stride].state # "torn"

\* The candidate scan of FindBadBlockTable from block on: the entries it
\* stores, in order (entry valid_blocks is stored at block_list_[valid_blocks]).
RECURSIVE RangeScan(_, _, _)
RangeScan(f, block, table_end_block) ==
    IF block > table_end_block THEN <<>>
    ELSE IF RangeReadable(f, block)
    THEN <<[block |-> block, program_erase_cycles |-> f[block][0].pe, valid |-> TRUE]>>
             \o RangeScan(f, block + 1, table_end_block)
    ELSE RangeScan(f, block + 1, table_end_block)

\* What a call may return after a store past the end of block_list_.
AfterOverrun == {ZX_OK, ZX_ERR_INTERNAL, ZX_ERR_NOT_FOUND, ZX_ERR_NOT_SUPPORTED, ZX_ERR_IO}

\* A first call of an entry point: FindBadBlockTable under config_.  ret
\* records the number of entries the scan stored.
DoFindBadBlockTable ==
    LET blocks == BlocksIn(config_.table_start_block, config_.table_end_block)
        stored == IF Unsupported(blocks) THEN <<>>
                  ELSE RangeScan(flash, config_.table_start_block, config_.table_end_block)
    IN  /\ ~found_
        /\ block_list_' = [i \in 0 .. (kBlockListMax - 1) |->
                              IF i < Len(stored) THEN stored[i + 1] ELSE block_list_[i]]
        /\ \E status \in IF Unsupported(blocks) THEN {ZX_ERR_NOT_SUPPORTED}
                          ELSE IF Len(stored) > kBlockListMax THEN AfterOverrun
                          ELSE {ZX_ERR_INTERNAL} :
              ret' = [op |-> "find", block |-> 0, status |-> status, persisted |-> <<>>,
                      wrotebad |-> FALSE, entries |-> Len(stored)]
        /\ UNCHANGED <<table_, block_entry_, page_, generation_, found_, flash, hist,
                       faults, readfaults, cycles>>
        /\ UNCHANGED surroundings

InitRange ==
    /\ config_ \in Configs
    /\ flash \in {RangeFlash(U) : U \in {{}} \cup {{b} : b \in 0 .. (RangeBlocks - 1)}}
    /\ table_ = FreshTable
    /\ block_list_ = FreshList
    /\ block_entry_ = NULL
    /\ page_ = 0
    /\ generation_ = 0
    /\ found_ = FALSE
    /\ ret = NoRet
    /\ hist = NoHist
    /\ faults = 0
    /\ readfaults = 0
    /\ cycles = 0
    /\ lock_ = NULL
    /\ pc = [t \in Threads |-> IdlePc]
    /\ inflight = 0
    /\ bad_block_list_ = NoList
    /\ nand_ops = NoOps
    /\ erase_block_start_ = 0

NextRange == DoFindBadBlockTable

SpecRange == InitRange /\ [][NextRange]_vars

----------------------------------------------------------------------------
(* A partition device over the core (NandPartDevice): its blocks are       *)
(* erase_block_start_ .. erase_block_start_ + PartBlocks - 1 of the        *)
(* device, and it keeps the list the core returned for that range in       *)
(* bad_block_list_.  An empty fbl::Array is a null one, so the list is     *)
(* fetched again while it is empty.  No operation fails here.              *)

PartBlocks == 2
PartStarts == 0 .. (NumBlocks - PartBlocks)
PartArgs == 0 .. PartBlocks

\* The longest cached list a further mark_bad is explored from.
MaxList == 3

\* The flash the partition starts over: the first reserved block hosts one
\* record of a table in which the blocks of B are bad.
TableWith(B) == [k \in 0 .. (BufLen - 1) |-> IF k \in B THEN kNandBlockBad ELSE kNandBlockGood]
PartFlash(B) ==
    [FormattedFlash(1, "stale") EXCEPT ![TableStart] = HostBlock(TableWith(B), 1, 1, 1)]
PartBad == SUBSET {0, TableEnd}

\* if (!bad_block_list_) bad_block_->GetBadBlockList(&bad_block_list_,
\* erase_block_start_, erase_block_start_ + num_blocks): the core machine
\* after the call, the cache and the status.
FetchList(m, cache, start) ==
    IF cache # NoList THEN [m |-> [m EXCEPT !.status = ZX_OK], cache |-> cache]
    ELSE LET r == GetBadBlockList(m, start, start + PartBlocks, {})
         IN  [m |-> r.m, cache |-> IF r.m.status = ZX_OK THEN r.list ELSE cache]

\* NandPartDevice::IsBlockBad: the blocks of the cache are compared with
\* the block argument.
PartIsBlockBad(m, cache, start, block) ==
    IF block >= PartBlocks
    THEN [m |-> [m EXCEPT !.status = ZX_ERR_OUT_OF_RANGE], cache |-> cache, is_bad |-> FALSE]
    ELSE LET f == FetchList(m, cache, start)
         IN  [m |-> f.m, cache |-> f.cache,
              is_bad |-> /\ f.m.status = ZX_OK
                         /\ \E i \in 1 .. Len(f.cache) : f.cache[i] = block]

\* NandPartDevice::MarkBlockBad: the block argument is appended to the
\* cache, then offset and passed to the core.
PartMarkBlockBad(m, cache, start, block) ==
    IF block >= PartBlocks
    THEN [m |-> [m EXCEPT !.status = ZX_ERR_OUT_OF_RANGE], cache |-> cache]
    ELSE LET f == FetchList(m, cache, start)
         IN  IF f.m.status # ZX_OK THEN f
             ELSE [m |-> MarkBlockBad(f.m, block + start, {}),
                   cache |-> Append(f.cache, block)]

\* NandPartDevice::GetBadBlockList2
PartGetBadBlockList2(m, cache, start) == FetchList(m, cache, start)

\* The state a call of the partition device leaves.
LeavePart(r, op, block, is_bad) ==
    /\ LeaveObject(r.m)
    /\ bad_block_list_' = r.cache
    /\ ret' = [op |-> op, block |-> block, status |-> r.m.status,
               persisted |-> r.m.persisted, wrotebad |-> r.m.wrotebad,
               is_bad |-> is_bad]
    /\ UNCHANGED <<hist, faults, readfaults, cycles>>
    /\ UNCHANGED <<config_, lock_, pc, inflight, erase_block_start_, nand_ops>>

DoPartIsBlockBad ==
    \E block \in PartArgs :
        LET r == PartIsBlockBad(Machine, bad_block_list_, erase_block_start_, block)
        IN  LeavePart(r, "part_is_bad", block, r.is_bad)

DoPartMarkBlockBad ==
    \E block \in PartArgs :
        /\ Len(bad_block_list_) < MaxList
        /\ LeavePart(PartMarkBlockBad(Machine, bad_block_list_, erase_block_start_, block),
                     "part_mark_bad", block, FALSE)

DoPartGetBadBlockList2 ==
    LeavePart(PartGetBadBlockList2(Machine, bad_block_list_, erase_block_start_),
              "part_list_bad", 0, FALSE)

InitPartition ==
    /\ erase_block_start_ \in PartStarts
    /\ flash \in {PartFlash(B) : B \in PartBad}
    /\ table_ = FreshTable
    /\ block_list_ = FreshList
    /\ block_entry_ = NULL
    /\ page_ = 0
    /\ generation_ = 0
    /\ found_ = FALSE
    /\ ret = NoRet
    /\ hist = NoHist
    /\ faults = 0
    /\ readfaults = 0
    /\ cycles = 0
    /\ config_ = [table_start_block |-> TableStart, table_end_block |-> TableEnd]
    /\ lock_ = NULL
    /\ pc = [t \in Threads |-> IdlePc]
    /\ inflight = 0
    /\ bad_block_list_ = NoList
    /\ nand_ops = NoOps

NextPartition == DoPartIsBlockBad \/ DoPartMarkBlockBad \/ DoPartGetBadBlockList2

SpecPartition == InitPartition /\ [][NextPartition]_vars

----------------------------------------------------------------------------
(* The three entry points when the re-read of the latest window goes       *)
(* wrong: at most one page of the re-read fails or comes back without the  *)
(* magic; nothing else fails.                                              *)

RereadPlans == {{}} \cup {{e} : e \in RereadEvents}

\* The state a call leaves; ret records the faults of the call and, for
\* is_bad, the answer.
LeaveReread(m, op, block, is_bad, F) ==
    /\ m.used = F
    /\ LeaveObject(m)
    /\ readfaults' = readfaults + Cardinality(F)
    /\ faults' = faults + Cardinality(F)
    /\ ret' = [op |-> op, block |-> block, status |-> m.status,
               persisted |-> m.persisted, wrotebad |-> m.wrotebad,
               is_bad |-> is_bad, faults |-> F]
    /\ UNCHANGED <<hist, cycles>>
    /\ UNCHANGED surroundings

DoGetBadBlockListReread ==
    \E F \in RereadPlans :
        LeaveReread(GetBadBlockList(Machine, 0, NumBlocks, F).m, "list_bad", 0, FALSE, F)

DoIsBlockBadReread ==
    \E block \in BlockArgs, F \in RereadPlans :
        LET r == IsBlockBad(Machine, block, F)
        IN  LeaveReread(r.m, "is_bad", block, r.is_bad, F)

DoMarkBlockBadReread ==
    \E block \in BlockArgs, F \in RereadPlans :
        LeaveReread(MarkBlockBad(Machine, block, F), "mark_bad", block, FALSE, F)

NextReread == DoGetBadBlockListReread \/ DoIsBlockBadReread \/ DoMarkBlockBadReread

SpecReread == InitArgs /\ [][NextReread]_vars

----------------------------------------------------------------------------
(* The calls of Spec with the NAND operations of each call on record: ret  *)
(* also holds the blocks the call erased, the pages it programmed,         *)
(* whether one of them was not erased when it was programmed, and the      *)
(* blocks it issued an erase or a page write to.                           *)

CommitLog(m, op, block, F) ==
    /\ CommitObject(m, op, block, F)
    /\ ret' = [op |-> op, block |-> block,
               status |-> IF m.crashed THEN POWER_LOSS ELSE m.status,
               persisted |-> IF m.crashed THEN <<>> ELSE m.persisted,
               wrotebad |-> m.wrotebad,
               erased |-> m.erased, written |-> m.written,
               overwrote |-> m.overwrote, targets |-> m.targets]
    /\ UNCHANGED surroundings

DoGetBadBlockListLog ==
    \E a \in ListArgs, F \in Plans :
        IF found_ THEN F = {} /\ UNCHANGED vars
        ELSE CommitLog(GetBadBlockList(Machine, a[1], a[2], F).m, "list_bad", 0, F)

DoIsBlockBadLog ==
    \E block \in BlockArgs, F \in Plans :
        IF found_ THEN F = {} /\ UNCHANGED vars
        ELSE CommitLog(IsBlockBad(Machine, block, F).m, "is_bad", 0, F)

DoMarkBlockBadLog ==
    \E block \in BlockArgs, F \in Plans :
        CommitLog(MarkBlockBad(Machine, block, F), "mark_bad", block, F)

NextLog == DoGetBadBlockListLog \/ DoIsBlockBadLog \/ DoMarkBlockBadLog \/ PowerCycle

SpecLog == Init /\ [][NextLog]_vars

----------------------------------------------------------------------------
(* NAND operations queued on a partition device (NandPartDevice::Queue).   *)
(* A client hands over an op; the partition copies it into translated_op,  *)
(* makes the offset relative to the whole device and queues translated_op  *)
(* on the parent, whose completion reaches the client's completion_cb      *)
(* through CompletionCallback.  nand_ops[id] holds the op, its translated  *)
(* copy, the statuses the client's completion_cb was invoked with, in      *)
(* order, and the statuses the parent completed translated_op with.  The   *)
(* parent completes every op queued on it once, with a status of its own.  *)

NAND_OP_READ == "NAND_OP_READ"
NAND_OP_WRITE == "NAND_OP_WRITE"
NAND_OP_ERASE == "NAND_OP_ERASE"
\* Any command value other than the three above.
OtherCommand == "other"
Commands == {NAND_OP_READ, NAND_OP_WRITE, NAND_OP_ERASE, OtherCommand}
Supported == {NAND_OP_READ, NAND_OP_WRITE, NAND_OP_ERASE}
OpOffsets == 0 .. 1
ParentStatuses == {ZX_OK, ZX_ERR_IO, ZX_ERR_NOT_SUPPORTED}

\* The translated copy of op, the statuses Queue itself passes to the
\* client's completion_cb, and whether it goes on to queue the copy on the
\* parent: the else branch completes the op and falls through.
Translate(op, start) ==
    IF op.command \in {NAND_OP_READ, NAND_OP_WRITE}
    THEN [t |-> [op EXCEPT !.offset_nand = @ + start * PagesPerBlock],
          cb |-> <<>>, queued |-> TRUE]
    ELSE IF op.command = NAND_OP_ERASE
    THEN [t |-> [op EXCEPT !.first_block = @ + start], cb |-> <<>>, queued |-> TRUE]
    ELSE [t |-> op, cb |-> <<ZX_ERR_NOT_SUPPORTED>>, queued |-> TRUE]

\* NandPartDevice::Queue(op)
PartQueue ==
    \E id \in OpIds, command \in Commands, offset \in OpOffsets :
        LET op == [command |-> command, offset_nand |-> offset, first_block |-> offset]
            r == Translate(op, erase_block_start_)
        IN  /\ nand_ops[id].at = "client"
            /\ nand_ops' = [nand_ops EXCEPT ![id] =
                               [at |-> IF r.queued THEN "parent" ELSE "done",
                                op |-> op, translated_op |-> r.t,
                                completion_cb |-> r.cb, parent |-> <<>>]]
            /\ UNCHANGED <<core, config_, lock_, pc, inflight, bad_block_list_,
                           erase_block_start_>>

\* The parent completes a translated op: CompletionCallback(op, status)
\* takes the client's op from the cookie and invokes its completion_cb.
PartCompletionCallback ==
    \E id \in OpIds, status \in ParentStatuses :
        /\ nand_ops[id].at = "parent"
        /\ nand_ops' = [nand_ops EXCEPT ![id].at = "done",
                                        ![id].parent = Append(@, status),
                                        ![id].completion_cb = Append(@, status)]
        /\ UNCHANGED <<core, config_, lock_, pc, inflight, bad_block_list_,
                       erase_block_start_>>

InitQueue ==
    /\ InitPartition
    /\ flash = PartFlash({})

NextQueue == PartQueue \/ PartCompletionCallback

SpecQueue == InitQueue /\ [][NextQueue]_vars

----------------------------------------------------------------------------
(* What the state answers and what the flash holds.                        *)

ToSet(s) == {s[i] : i \in 1 .. Len(s)}

\* The result of list_bad(0, num_blocks) in the current state.
ListBad == GetBadBlockList(Machine, 0, NumBlocks, {})
Listed == ToSet(ListBad.list)

\* The complete records on the flash (reserved block, window): every page
\* of the window is programmed, readable and carries the magic.
CompleteAt(h, w) ==
    \A i \in 0 .. (Stride - 1) :
        flash[h][w * Stride + i].state = "prog" /\ flash[h][w * Stride + i].magic
Records == {r \in Reserved \X (0 .. (NumWindows - 1)) : CompleteAt(r[1], r[2])}
RecordGen(r) == flash[r[1]][r[2] * Stride].gen
RecordTable(r) ==
    [b \in Blocks |-> flash[r[1]][r[2] * Stride + (b \div PageSize)].data[b % PageSize]]
\* The complete records of the highest generation.
Newest == {r \in Records : \A q \in Records : RecordGen(q) <= RecordGen(r)}

\* The last call was a mark_bad that returned an error.
MarkFailed == ret.op = "mark_bad" /\ ret.status \notin {ZX_OK, POWER_LOSS}

\* A new object constructed over the flash as it is now, and what its
\* discovery finds when no operation fails.
Reopened == [Machine EXCEPT !.table = FreshTable, !.bl = FreshList, !.be = NULL,
                            !.page = 0, !.gen = 0, !.found = FALSE]
Reloaded == FindBadBlockTable(Reopened, {})

\* The object is as constructed; the block its discovery would elect.
Fresh == ~found_ /\ table_ = FreshTable /\ generation_ = 0 /\ block_entry_ = NULL
Elected ==
    LET l == LocateHosts([Reopened EXCEPT !.be = NULL], TableStart, 0, {})
    IN  IF l.be = NULL THEN NULL ELSE l.bl[l.be].block
\* The current host block.
Host == IF block_entry_ = NULL THEN NULL ELSE block_list_[block_entry_].block

\* Window w of block h is the torn last record of the block: window w - 1
\* is complete, the pages of w before the last carry the magic, the last
\* page is in state last ("torn": unreadable; "erased": never programmed),
\* and nothing was written after it.
TornTail(h, w, last) ==
    /\ CompleteAt(h, w - 1)
    /\ \A i \in 0 .. (Stride - 2) :
          flash[h][w * Stride + i].state = "prog" /\ flash[h][w * Stride + i].magic
    /\ flash[h][w * Stride + Stride - 1].state = last
    /\ \A p \in 0 .. (PagesPerBlock - 1) :
          p >= (w + 1) * Stride => flash[h][p].state = "erased"
LaterWindows == 1 .. (NumWindows - 1)

----------------------------------------------------------------------------
(* C1.  The set list_bad returns after a run of mark_bad calls.            *)

\* C1 as stated: on an object that has found its table, list_bad(0,
\* num_blocks) returns exactly the blocks mark_bad was called with.
C1_ListIsExactlyMarked ==
    found_ => /\ ListBad.m.status = ZX_OK
              /\ Listed = hist.marked

\* C1, amended: on an object that has found its table, list_bad(0,
\* num_blocks) succeeds and returns exactly the blocks that were bad in the
\* table discovery loaded, the blocks mark_bad was called with since, and
\* the reserved blocks the object marked bad itself after an erase or a
\* page write of theirs failed.
C1_ListIsInheritedMarkedFailed ==
    found_ => /\ ListBad.m.status = ZX_OK
              /\ Listed = hist.inherited \cup hist.marked
                              \cup hist.failed \cup hist.unerasable
              /\ hist.failed \cup hist.unerasable \subseteq Reserved

\* A run in which all three kinds of block are listed.
C1_Witness ==
    /\ found_
    /\ hist.inherited # {}
    /\ hist.marked \ hist.inherited # {}
    /\ hist.failed \ (hist.marked \cup hist.inherited) # {}
    /\ Listed = hist.inherited \cup hist.marked \cup hist.failed

----------------------------------------------------------------------------
(* C2.  Round trip through a power cycle.                                  *)

\* C2: when every call since the object found its table returned ZX_OK,
\* no read has failed and power was never lost (writes and erases may have
\* failed), a new object over the same flash discovers a table equal to
\* the table in memory.
C2_RoundTrip ==
    (found_ /\ hist.clean /\ readfaults = 0 /\ cycles = 0)
        => /\ Reloaded.found
           /\ \A b \in Blocks : Reloaded.table[b] = table_[b]

----------------------------------------------------------------------------
(* C3.  A block that is not good never becomes good again.                 *)

\* T[b] is not good and a call has shown it: the object has found its
\* table, so any query answers from T, or mark_bad(b) just returned ZX_OK.
Observed(b) ==
    /\ table_[b] # kNandBlockGood
    /\ \/ found_
       \/ ret.op = "mark_bad" /\ ret.status = ZX_OK /\ ret.block = b

\* C3: once T[b] is not good and a call has shown it, no step of the same
\* object makes T[b] good.
C3_NeverGoodAgain ==
    [][\A b \in Blocks :
          (Observed(b) /\ cycles' = cycles) => table_'[b] # kNandBlockGood]_vars

----------------------------------------------------------------------------
(* C4.  Every mutation is committed before mark_bad returns.               *)

\* C4: when mark_bad returned ZX_OK, and no operation has failed and power
\* was never lost, a complete record of the highest generation on the
\* flash is an image of T.
C4_CommittedBeforeReturn ==
    (ret.op = "mark_bad" /\ ret.status = ZX_OK /\ faults = 0 /\ cycles = 0)
        => \E r \in Newest : \A b \in Blocks : RecordTable(r)[b] = table_[b]

----------------------------------------------------------------------------
(* C5.  T and the flash after a mark_bad that returned an error.           *)

----------------------------------------------------------------------------
(* C6.  Idempotence of mark_bad.                                           *)

\* C6: when mark_bad(b) returned ZX_OK and the next call of the same
\* object is mark_bad(b) and returns ZX_OK, that call completes no record,
\* writes nothing to the flash and leaves G, page_ and the host unchanged.
C6_SecondMarkIsNoOp ==
    [][(/\ ret.op = "mark_bad" /\ ret.status = ZX_OK
        /\ ret'.op = "mark_bad" /\ ret'.status = ZX_OK /\ ret'.block = ret.block
        /\ cycles' = cycles)
       => (/\ ret'.persisted = <<>>
           /\ flash' = flash
           /\ generation_' = generation_
           /\ page_' = page_
           /\ block_entry_' = block_entry_)]_vars

----------------------------------------------------------------------------
(* C7.  The first mark_bad on a virgin device.                             *)

\* C7: on a device whose every page is erased, the first call, mark_bad(b),
\* returns ZX_OK after completing one record at page 0 of a reserved
\* block, and b is then the only bad block.
C7_VirginFirstMark ==
    [][(flash = VirginFlash /\ ret.op = "none" /\ ret'.op = "mark_bad")
       => (/\ ret'.status = ZX_OK
           /\ Len(ret'.persisted) = 1
           /\ ret'.persisted[1].page = 0
           /\ ret'.persisted[1].block \in Reserved
           /\ found_'
           /\ BadSet(table_') = {ret'.block})]_vars

----------------------------------------------------------------------------
(* C8.  A last record whose final page is unreadable.                      *)

\* A new object runs discovery, without a failing read, over a flash whose
\* elected host h ends in a record with an unreadable final page, and
\* discovery succeeds.
UnreadableTailFound(h, w) ==
    /\ Fresh /\ Elected = h /\ TornTail(h, w, "torn")
    /\ found_' /\ readfaults' = readfaults

----------------------------------------------------------------------------
(* C9.  A last record that lacks the magic on a readable page.             *)

\* C9: when the host h ends in a record window whose last page was never
\* programmed, the first mark_bad after opening that returns ZX_OK and
\* completes a record puts no record on h, and leaves h good in T.
C9_MissingMagicMigrates ==
    [][\A h \in Reserved, w \in LaterWindows :
          (/\ TornTail(h, w, "erased")
           /\ \/ Fresh /\ Elected = h
              \/ found_ /\ Host = h /\ page_ = w * Stride /\ hist.marked = {}
           /\ readfaults' = readfaults
           /\ ret'.op = "mark_bad" /\ ret'.status = ZX_OK /\ ret'.persisted # <<>>)
             => /\ \A r \in ToSet(ret'.persisted) : r.block # h
                /\ table_'[h] = kNandBlockGood]_vars

----------------------------------------------------------------------------
(* C10.  A page write to the host fails during mark_bad.                   *)

\* Another entry is valid, its block is good in T and is neither h nor b.
OtherUsable(h, b) ==
    \E i \in 0 .. (kBlockListMax - 1) :
        /\ block_list_[i].valid
        /\ block_list_[i].block \notin {h, b}
        /\ table_[block_list_[i].block] = kNandBlockGood

\* C10: when mark_bad(b) writes to the host h and a page write to h fails,
\* no erase fails, and another valid entry has a good block, then the call
\* returns ZX_OK, T[h] is bad (is_bad(h) answers true), and a record that
\* has both b and h bad is completed on a block other than h.
C10_WriteFailureRelocates ==
    [][\A h \in Reserved :
          (/\ found_ /\ Host = h /\ table_[h] = kNandBlockGood
           /\ page_ + Stride <= PagesPerBlock
           /\ ret'.op = "mark_bad"
           /\ h \in hist'.failed /\ h \notin hist.failed
           /\ hist'.unerasable = hist.unerasable
           /\ OtherUsable(h, ret'.block))
             => /\ ret'.status = ZX_OK
                /\ table_'[h] # kNandBlockGood /\ found_'
                /\ \E r \in ToSet(ret'.persisted) :
                      r.block # h /\ {ret'.block, h} \subseteq r.bad]_vars

----------------------------------------------------------------------------
(* C11.  Least-worn selection.                                             *)

Entries == 0 .. (kBlockListMax - 1)

\* C11: whenever GetNewBlock returns ZX_OK, the entry it made the host is
\* not the previous host, its wear count was incremented by one, and
\* before the increment it was not above the wear count of any other entry
\* that is still valid and is not the previous host; an entry with the same
\* wear count has a higher index.
C11_LeastWornFirst ==
    [][(ret'.op = "select" /\ ret'.status = ZX_OK)
       => /\ block_entry_' \in Entries \ {block_entry_}
          /\ block_list_'[block_entry_'].program_erase_cycles
                = block_list_[block_entry_'].program_erase_cycles + 1
          /\ \A j \in Entries \ {block_entry_, block_entry_'} :
                block_list_'[j].valid
                  => /\ block_list_[block_entry_'].program_erase_cycles
                          <= block_list_[j].program_erase_cycles
                     /\ (block_list_[j].program_erase_cycles
                            = block_list_[block_entry_'].program_erase_cycles
                          => block_entry_' < j)]_vars

\* GetNewBlock has elected an entry while a later entry, still valid and
\* not the previous host, had the same wear count.
C11_Witness ==
    /\ ret.op = "select" /\ ret.status = ZX_OK
    /\ \E j \in Entries \ {ret.prev, block_entry_} :
          /\ block_list_[j].valid
          /\ j > block_entry_
          /\ block_list_[j].program_erase_cycles + 1
                = block_list_[block_entry_].program_erase_cycles

----------------------------------------------------------------------------
(* C12.  When selection fails.                                             *)

\* Entry j is a usable candidate: valid, not the host, its block good in T
\* and its erase not among the failing ones.
Usable(j, F) ==
    /\ block_list_[j].valid
    /\ j # block_entry_
    /\ table_[block_list_[j].block] = kNandBlockGood
    /\ Ev("erase", block_list_[j].block, 0) \notin F

\* C12: when some entry is a usable candidate, GetNewBlock returns ZX_OK
\* and elects a new host.
C12_NotFoundOnlyWhenExhausted ==
    [][(ret'.op = "select" /\ \E j \in Entries : Usable(j, ret'.faults))
       => (ret'.status = ZX_OK /\ block_entry_' # block_entry_)]_vars

----------------------------------------------------------------------------
(* C13.  The generation counter.                                           *)

ApiOps == {"list_bad", "is_bad", "mark_bad"}

\* The generation the flash f stores in the first page of record r.
StoredGen(f, r) == f[r.block][r.page].gen

\* C13: a call on an object that has found its table adds to G exactly the
\* number of records it completes (one per successful write, nothing for a
\* failed attempt), and every record a call completes stores a generation
\* above that of every complete record the flash held before the call and
\* of every record the call completed earlier.
C13_GenerationMonotonic ==
    [][(ret'.op \in ApiOps /\ ret'.status # POWER_LOSS)
       => /\ found_ => generation_' = generation_ + Len(ret'.persisted)
          /\ \A i \in 1 .. Len(ret'.persisted) :
                /\ \A q \in Records :
                      RecordGen(q) < StoredGen(flash', ret'.persisted[i])
                /\ \A k \in 1 .. (i - 1) :
                      StoredGen(flash', ret'.persisted[k])
                        < StoredGen(flash', ret'.persisted[i])]_vars

----------------------------------------------------------------------------
(* C14.  The freshest copy wins.                                           *)

\* C14: on a flash image reached through the writer, failed writes and
\* erases and interrupted writes (no page read has failed), a discovery
\* that succeeds on a newly constructed object elects the block that holds
\* a complete record of the highest generation on the flash and loads the
\* table of that record.
C14_FreshestCopyWins ==
    [][(Fresh /\ ret'.op \in ApiOps /\ found_' /\ readfaults' = 0)
       => \E r \in Newest :
             /\ r[1] = Elected
             /\ hist'.inherited = BadSet(RecordTable(r))]_vars

\* A list_bad call discovered a table with a bad block after a write had
\* failed and power was cycled, with records in two reserved blocks.
C14_Witness ==
    /\ found_
    /\ ret.op = "list_bad"
    /\ cycles = 1
    /\ faults = 1
    /\ readfaults = 0
    /\ hist.inherited # {}
    /\ Cardinality({r[1] : r \in Records}) >= 2

----------------------------------------------------------------------------
(* C15.  Full host.                                                        *)

\* C15: every record a call completes lies inside one block (its page
\* offset plus the stride is at most pages_per_block); and when the host h
\* is full, a mark_bad of a good block that runs without a fault, with
\* another valid entry whose block is good, returns ZX_OK after completing
\* one record at page 0 of a block other than h, which is the new host.
C15_FullHostRelocates ==
    [][(ret'.op \in ApiOps /\ ret'.status # POWER_LOSS)
       => /\ \A i \in 1 .. Len(ret'.persisted) :
                ret'.persisted[i].page + Stride <= PagesPerBlock
          /\ \A h \in Reserved :
                (/\ found_ /\ Host = h /\ table_[h] = kNandBlockGood
                 /\ page_ + Stride > PagesPerBlock
                 /\ ret'.op = "mark_bad"
                 /\ table_[ret'.block] = kNandBlockGood
                 /\ faults' = faults
                 /\ OtherUsable(h, ret'.block))
                   => /\ ret'.status = ZX_OK
                      /\ Len(ret'.persisted) = 1
                      /\ ret'.persisted[1].block # h
                      /\ ret'.persisted[1].page = 0
                      /\ Host' = ret'.persisted[1].block
                      /\ page_' = Stride]_vars

----------------------------------------------------------------------------
(* C16.  Mutual exclusion.                                                 *)

\* The threads that are inside an entry point, past the AutoLock.
Inside == {t \in Threads : pc[t].at \in {"inside", "waiting"}}

\* C16: with threads calling is_bad, list_bad and mark_bad concurrently,
\* at most one call is inside the core at a time; the lock is held by the
\* thread inside and by no thread that has returned, with ZX_OK or with an
\* error; and at most one NAND operation is in flight, queued by the
\* thread inside.
C16_MutualExclusion ==
    /\ Cardinality(Inside) <= 1
    /\ \A t \in Threads : (t \in Inside) <=> lock_ = t
    /\ lock_ \in Threads \cup {NULL}
    /\ inflight = Cardinality({t \in Threads : pc[t].at = "waiting"})
    /\ inflight <= 1

\* A thread waits for a NAND operation with the lock held while another
\* is blocked at the lock, after a call returned an error.
C16_Witness ==
    /\ ret.op \in ApiOps
    /\ ret.status \notin {ZX_OK, POWER_LOSS}
    /\ inflight = 1
    /\ \E t \in Threads, u \in Threads :
          /\ pc[t].at = "waiting" /\ lock_ = t
          /\ pc[u].at = "acquire"

----------------------------------------------------------------------------
(* C17.  Bounds of is_bad and mark_bad.                                    *)

\* C17: on an object that has found its table, is_bad(block) and
\* mark_bad(block) return ZX_ERR_OUT_OF_RANGE exactly when block >
\* num_blocks; a call that returns it leaves T, G, page_, the host and the
\* flash unchanged; and is_bad of a block <= num_blocks returns ZX_OK and
\* true iff T[block] is not good, changing nothing.
C17_BoundsOfBlock ==
    [][(found_ /\ ret'.op \in {"is_bad", "mark_bad"})
       => /\ ret'.status = ZX_ERR_OUT_OF_RANGE <=> ret'.block > NumBlocks
          /\ (ret'.status = ZX_ERR_OUT_OF_RANGE \/ ret'.op = "is_bad")
                => UNCHANGED <<table_, block_list_, block_entry_, page_,
                               generation_, found_, flash>>
          /\ (ret'.op = "is_bad" /\ ret'.block <= NumBlocks)
                => /\ ret'.status = ZX_OK
                   /\ ret'.is_bad <=> table_[ret'.block] # kNandBlockGood]_vars

\* is_bad(num_blocks) answered true on an object that has found its table.
C17_Witness ==
    /\ found_
    /\ ret.op = "is_bad"
    /\ ret.block = NumBlocks
    /\ ret.status = ZX_OK
    /\ ret.is_bad

----------------------------------------------------------------------------
(* C18.  Validation of the reserved range.                                 *)

\* The number of blocks in the inclusive range.
RangeSize ==
    IF config_.table_end_block >= config_.table_start_block
    THEN config_.table_end_block - config_.table_start_block + 1
    ELSE 0

\* C18: discovery returns ZX_ERR_NOT_SUPPORTED exactly when the inclusive
\* range [table_start_block, table_end_block] holds no block or more than
\* kBlockListMax blocks, and under an accepted range it stores at most
\* kBlockListMax entries.
C18_RangeValidation ==
    ret.op = "find"
        => /\ ret.status = ZX_ERR_NOT_SUPPORTED
                <=> (RangeSize = 0 \/ RangeSize > kBlockListMax)
           /\ ret.entries <= kBlockListMax

----------------------------------------------------------------------------
(* C19.  The partition's view of the table.                                *)

PartOps == {"part_is_bad", "part_mark_bad", "part_list_bad"}

\* C19: after any calls of the partition's is_bad, list_bad and mark_bad,
\* with the core's table found, the partition's is_bad(b) answers true
\* for a block b of the partition iff T[erase_block_start_ + b] is not
\* good, and the cached list is what the core's list_bad returns for the
\* partition's range of blocks.
C19_PartitionProjection ==
    (found_ /\ ret.op \in PartOps)
        => /\ \A b \in 0 .. (PartBlocks - 1) :
                 LET r == PartIsBlockBad(Machine, bad_block_list_, erase_block_start_, b)
                 IN  /\ r.m.status = ZX_OK
                     /\ r.is_bad <=> table_[erase_block_start_ + b] # kNandBlockGood
           /\ bad_block_list_ = GetBadBlockList(Machine, erase_block_start_,
                                                erase_block_start_ + PartBlocks, {}).list

----------------------------------------------------------------------------
(* C20.  The host is a good block.                                         *)

\* C20: no call issues a page write of a record to a block that is not
\* good in T at that moment; every record a call completes is on a block
\* that is good in the table it records; and when a call that completed a
\* record returns ZX_OK, the host is a good block in T.
C20_HostIsGood ==
    [][ret'.op \in ApiOps
       => /\ ~ret'.wrotebad
          /\ \A i \in 1 .. Len(ret'.persisted) :
                ret'.persisted[i].block \notin ret'.persisted[i].bad
          /\ (ret'.status = ZX_OK /\ Len(ret'.persisted) > 0)
                => /\ Host' = ret'.persisted[Len(ret'.persisted)].block
                   /\ table_'[Host'] = kNandBlockGood]_vars

\* A mark_bad moved the table to a new host because the page write to the
\* old one failed, while another reserved block was bad in T.
C20_Witness ==
    /\ ret.op = "mark_bad"
    /\ ret.status = ZX_OK
    /\ Len(ret.persisted) = 1
    /\ hist.failed # {}
    /\ table_[Host] = kNandBlockGood
    /\ \E b \in Reserved \ hist.failed : b # Host /\ table_[b] # kNandBlockGood

----------------------------------------------------------------------------
(* C21.  The writer terminates.                                            *)

\* C21: whatever erases and page writes fail, a call of the writer returns
\* ZX_OK after completing one record, or ZX_ERR_NOT_FOUND; every block
\* whose erase or page write failed is bad in T afterwards, and a block
\* whose erase failed is no longer a valid entry; no block is elected twice
\* and at most as many hosts are elected as there are reserved blocks; and
\* when it returns ZX_ERR_NOT_FOUND no valid entry other than the host has
\* a wear count below UINT16_MAX and a good block.
C21_WriterTerminates ==
    [][ret'.op = "write"
       => /\ ret'.status \in {ZX_OK, ZX_ERR_NOT_FOUND}
          /\ ret'.status = ZX_OK <=> Len(ret'.persisted) = 1
          /\ \A b \in ret'.failed \cup ret'.unerasable : table_'[b] # kNandBlockGood
          /\ \A i \in Entries :
                block_list_'[i].block \in ret'.unerasable => ~block_list_'[i].valid
          /\ Len(ret'.hosts) <= Cardinality(Reserved)
          /\ \A i \in 1 .. Len(ret'.hosts), k \in 1 .. Len(ret'.hosts) :
                ret'.hosts[i] = ret'.hosts[k] => i = k
          /\ ret'.status = ZX_ERR_NOT_FOUND
                => \A i \in Entries \ {block_entry_'} :
                      ~(/\ block_list_'[i].valid
                        /\ block_list_'[i].program_erase_cycles < UINT16_MAX
                        /\ table_'[block_list_'[i].block] = kNandBlockGood)]_vars

\* A call elected two hosts, the first of which failed its page write,
\* after an erase had failed, and completed its record on the second.
C21_Witness ==
    /\ ret.op = "write"
    /\ ret.status = ZX_OK
    /\ Len(ret.hosts) = 2
    /\ ret.unerasable # {}
    /\ ret.failed # {}

\* A call ran out of reserved blocks.
C21_WitnessExhausted ==
    /\ ret.op = "write"
    /\ ret.status = ZX_ERR_NOT_FOUND
    /\ Cardinality(ret.failed \cup ret.unerasable) = Cardinality(Reserved)

----------------------------------------------------------------------------
(* C22.  The re-read of the latest window fails.                           *)

\* C22: when a page read of the re-read fails, or a page of it comes back
\* without the magic, the call returns an error, the object has not found
\* its table, and the call completes no record and leaves the flash as it
\* was.
C22_RereadFailureIsAnError ==
    [][(ret'.op \in ApiOps /\ ret'.faults # {})
       => /\ ret'.status # ZX_OK
          /\ ~found_'
          /\ ret'.persisted = <<>>
          /\ flash' = flash]_vars

----------------------------------------------------------------------------
(* C23.  Pages are programmed once between erases.                         *)

\* C23: every page a call programs is erased when it is programmed.
C23_ProgramsErasedPages ==
    [][ret'.op \in ApiOps => ~ret'.overwrote]_vars

----------------------------------------------------------------------------
(* C24.  Indices into table_.                                              *)

\* C24: a call of is_bad or mark_bad on an object that has found its table
\* either returns ZX_ERR_OUT_OF_RANGE or indexes table_ at its block
\* argument; every index so used lies in 0 .. num_blocks - 1.
C24_IndexInsideTable ==
    [][(found_ /\ ret'.op \in {"is_bad", "mark_bad"}
               /\ ret'.status # ZX_ERR_OUT_OF_RANGE)
       => ret'.block \in 0 .. (NumBlocks - 1)]_vars

----------------------------------------------------------------------------
(* C25.  Erases and page writes stay in the reserved range.                *)

\* C25: every erase and every page write a call issues, whether it
\* succeeds or not, targets a block of the reserved range.
C25_StaysInReservedRange ==
    [][ret'.op \in ApiOps
       => /\ ret'.targets \subseteq Reserved
          /\ ret'.erased \subseteq Reserved
          /\ \A p \in ret'.written : p \div PagesPerBlock \in Reserved]_vars

\* A call wrote to one reserved block, failed, and erased and programmed
\* another.
C25_Witness ==
    /\ ret.op = "mark_bad"
    /\ ret.status = ZX_OK
    /\ ret.erased # {}
    /\ ret.written # {}
    /\ Cardinality(ret.targets) >= 2

----------------------------------------------------------------------------
(* C26.  A failed discovery and the next one.                              *)

\* C26: when an object that has not found its table (for one, because an
\* earlier discovery failed) runs discovery with every read succeeding,
\* over a flash on which a new object finds a table, it finds the table
\* too, with the host, the table and the generation the new object loads.
C26_FailedDiscoveryLeavesNoTrace ==
    [][(/\ ~found_
        /\ ret'.op \in {"list_bad", "is_bad"}
        /\ ret'.faults = {}
        /\ Reloaded.status = ZX_OK
        /\ Reloaded.found)
       => /\ ret'.status = ZX_OK
          /\ found_'
          /\ block_entry_' # NULL
          /\ block_list_'[block_entry_'].block = Reloaded.bl[Reloaded.be].block
          /\ table_' = Reloaded.table
          /\ generation_' = Reloaded.gen]_vars

----------------------------------------------------------------------------
(* C27.  Completion of the ops queued on a partition.                      *)

\* C27: an op of a command other than READ, WRITE and ERASE is completed
\* with ZX_ERR_NOT_SUPPORTED and is not queued on the parent; no op has its
\* completion_cb invoked twice; and an op the parent has completed had its
\* completion_cb invoked once, with the parent's status.
C27_CompletedExactlyOnce ==
    \A id \in OpIds :
        LET o == nand_ops[id]
        IN  /\ Len(o.completion_cb) <= 1
            /\ (o.at # "client" /\ o.op.command \notin Supported)
                  => /\ o.at = "done"
                     /\ o.parent = <<>>
                     /\ o.completion_cb = <<ZX_ERR_NOT_SUPPORTED>>
            /\ (o.at = "done" /\ o.op.command \in Supported)
                  => /\ Len(o.parent) = 1
                     /\ o.completion_cb = o.parent

=============================================================================
